---- MODULE Spec2Model ----
(***************************************************************************)
(* auroradash (src/app.py): a Dash page that fetches two NOAA Kp feeds     *)
(* once at import time, cleans them with pandas, colours the observed Kp   *)
(* values, installs a layout and then serves date-range callbacks.         *)
(*                                                                         *)
(* Representation.  Every Python value held by a variable is a record      *)
(* [tag, v].  Timestamps are integers (days); Kp values are fixed-point    *)
(* integers in tenths (49 is 4.9).  A JSON string is tagged by its textual *)
(* shape, so that parsing is a function of the text and can fail.  A       *)
(* DataFrame is the sequence of its rows, each row carrying its index      *)
(* label idx.  The pass-through columns a_running, station_count and       *)
(* noaa_scale are never read by the code and are left out of the rows.     *)
(***************************************************************************)
EXTENDS Integers, Sequences, FiniteSets, TLC

\* ------------------------------------------------------------- bounds
\* Longest observational feed body, in records (the header included).
MaxRows == 3
\* Longest forecast feed body, in records (the header included).
MaxForecastRows == 2
\* Timestamps of the feeds and of the date picker are the days 1..MaxTime.
MaxTime == 2
\* map_color is exercised on every Kp in -MaxKpTenths..MaxKpTenths (tenths).
MaxKpTenths == 110

\* ------------------------------------------------------------- values
None == [tag |-> "None", v |-> 0]
NaT == [tag |-> "NaT", v |-> 0]
NaN == [tag |-> "NaN", v |-> 0]
\* A name that no statement has bound yet.
Unbound == [tag |-> "unbound", v |-> 0]
Timestamp(t) == [tag |-> "Timestamp", v |-> t]
Float(x) == [tag |-> "float", v |-> x]
JsonList(rows) == [tag |-> "list", v |-> rows]
Frame(rows) == [tag |-> "DataFrame", v |-> rows]

\* The two literal formats of the feeds, and the picker's display format.
KP_FORMAT == "%Y-%m-%d %H:%M:%S.%f"
FORECAST_FORMAT == "%Y-%m-%d %H:%M:%S"
DATE_FORMAT == "%Y-%m-%d"
\* The text of day t written in format fmt.
TimeText(fmt, t) == [tag |-> fmt, v |-> t]
\* The decimal text of the number x (tenths), e.g. "4.9".
DecimalText(x) == [tag |-> "decimal", v |-> x]
\* A text that is neither a date nor a number ("time_tag", "bad", ...).
WordText == [tag |-> "word", v |-> 0]
EmptyText == [tag |-> "empty", v |-> 0]

\* An uncaught exception, or a returned value.
Raise(type, where) == [exc |-> type, where |-> where, ret |-> None]
Return(value) == [exc |-> "", where |-> "", ret |-> value]

Range(s) == {s[i] : i \in 1..Len(s)}
SetMax(S) == CHOOSE m \in S : \A x \in S : x <= m
SetMin(S) == CHOOSE m \in S : \A x \in S : m <= x

\* ------------------------------------------------------------- pandas
isna(x) == x.tag \in {"None", "NaT", "NaN"}

\* pd.to_datetime(text, format=fmt, errors='coerce'): a text that is not
\* written in fmt becomes NaT.
to_datetime_format(x, fmt) == IF x.tag = fmt THEN Timestamp(x.v) ELSE NaT

\* pd.to_datetime(x) with no format: None stays None, the empty string is
\* NaT, a date text in any of the known shapes parses, anything else raises.
to_datetime(x) ==
    IF x = None THEN Return(None)
    ELSE IF x.tag = "empty" THEN Return(NaT)
    ELSE IF x.tag \in {KP_FORMAT, FORECAST_FORMAT, DATE_FORMAT} THEN Return(Timestamp(x.v))
    ELSE Raise("ValueError", "to_datetime")

\* pd.to_numeric(x, errors='ignore'): what does not convert is left as it is.
to_numeric_ignore(x) == IF x.tag = "decimal" THEN Float(x.v) ELSE x

\* pd.to_numeric(x, errors='coerce')
to_numeric(x) == IF x.tag = "decimal" THEN Float(x.v) ELSE NaN

\* pd.DataFrame(data, columns=...): None gives the empty frame, a list gives
\* one row per record, labelled 0..n-1.
pd_DataFrame(data) ==
    IF data = None THEN Frame(<<>>)
    ELSE Frame([i \in 1..Len(data.v) |-> [idx |-> i - 1] @@ data.v[i]])

\* df.drop(0): the row labelled 0 is removed; a missing label is a KeyError.
drop(df, label) ==
    IF \A i \in 1..Len(df.v) : df.v[i].idx # label
    THEN Raise("KeyError", "drop")
    ELSE LET Keep(r) == r.idx # label
         IN Return(Frame(SelectSeq(df.v, Keep)))

\* df[col] = pd.to_datetime(df[col], format=fmt, errors='coerce')
to_datetime_column(df, col, fmt) ==
    Frame([i \in 1..Len(df.v) |->
             [df.v[i] EXCEPT ![col] = to_datetime_format(df.v[i][col], fmt)]])

\* df[col] = pd.to_numeric(df[col], errors='coerce')
to_numeric_column(df, col) ==
    Frame([i \in 1..Len(df.v) |-> [df.v[i] EXCEPT ![col] = to_numeric(df.v[i][col])]])

\* ------------------------------------------------------------- app.py
\* math.ceil on a fixed-point number of tenths.
math_ceil(x) == -((-x) \div 10)

map_color_floor(kp_value) ==
    LET k == kp_value \div 10
    IN IF k < 5 THEN "green"
       ELSE IF k = 5 THEN "yellow"
       ELSE IF k = 6 THEN "orange"
       ELSE IF k = 7 THEN "red"
       ELSE IF 8 <= k /\ k <= 9 THEN "darkred"
       ELSE "brown"

map_color(kp_value) ==
    LET k == math_ceil(kp_value)
    IN IF k < 5 THEN "green"
       ELSE IF k = 5 THEN "yellow"
       ELSE IF k = 6 THEN "orange"
       ELSE IF k = 7 THEN "red"
       ELSE IF 8 <= k /\ k <= 9 THEN "darkred"
       ELSE "brown"

apply_color_mapping(df) ==
    Frame([i \in 1..Len(df.v) |-> df.v[i] @@ [color |-> map_color(df.v[i].Kp.v)]])

\* requests.get + raise_for_status + json: the parsed body, or None after a
\* RequestException (a transport error or a non-success status).
fetch_data(response) ==
    IF response.status = "ok" THEN response.json ELSE None

\* df.dropna(subset=cols)
dropna(df, cols) ==
    LET Keep(r) == \A c \in cols : ~isna(r[c])
    IN Frame(SelectSeq(df.v, Keep))

preprocess_kp_dataframe(data) ==
    LET dropped == drop(pd_DataFrame(data), 0)
    IN IF dropped.exc # "" THEN dropped
       ELSE LET df1 == to_datetime_column(dropped.ret, "time_tag", KP_FORMAT)
                df2 == dropna(df1, {"time_tag", "Kp"})
                df3 == to_numeric_column(df2, "Kp")
                df4 == dropna(df3, {"Kp"})
            IN Return(apply_color_mapping(df4))

preprocess_forecast_dataframe(data) ==
    LET Accepted(r) == r.observed = "estimated" \/ r.observed = "predicted"
        dropped == drop(pd_DataFrame(data), 0)
    IN IF dropped.exc # "" THEN dropped
       ELSE LET df1 == to_datetime_column(dropped.ret, "time_tag", FORECAST_FORMAT)
                df2 == dropna(df1, {"time_tag", "kp"})
                df3 == to_numeric_column(df2, "kp")
                df4 == dropna(df3, {"kp"})
            IN Return(Frame(SelectSeq(df4.v, Accepted)))

\* df['time_tag'].max() and .min(): NaT on an empty column.
time_tag_max(df) ==
    IF Len(df.v) = 0 THEN NaT ELSE Timestamp(SetMax({r.time_tag.v : r \in Range(df.v)}))
time_tag_min(df) ==
    IF Len(df.v) = 0 THEN NaT ELSE Timestamp(SetMin({r.time_tag.v : r \in Range(df.v)}))
\* ts - pd.DateOffset(days=n); NaT stays NaT.
minus_days(ts, n) == IF ts = NaT THEN NaT ELSE Timestamp(ts.v - n)

Alert == [tag |-> "Alert", v |-> 0]

\* The if branch builds the date picker, the gauge (kp_df['Kp'].iloc[-1]:
\* an IndexError on an empty column) and the forecast table; the else branch
\* is the dismissible alert.
create_layout(kp, forecast) ==
    IF kp # None /\ forecast # None
    THEN IF Len(kp.v) = 0
         THEN Raise("IndexError", "create_layout")
         ELSE Return([tag |-> "Dashboard",
                      v |-> [min_date_allowed |-> time_tag_min(kp),
                             max_date_allowed |-> time_tag_max(kp),
                             start_date |-> minus_days(time_tag_max(kp), 2),
                             end_date |-> time_tag_max(kp),
                             gauge |-> kp.v[Len(kp.v)].Kp,
                             table |-> forecast.v]])
    ELSE Return(Alert)

convert_to_datetime(date_str) ==
    LET parsed == to_datetime(date_str)
    IN IF parsed.exc # "" THEN None ELSE parsed.ret

\* Timestamp comparison; any comparison with NaT is False.
le(a, b) == a.tag = "Timestamp" /\ b.tag = "Timestamp" /\ a.v <= b.v

filter_dataframe_open_end(df, start_date, end_date) ==
    LET Keep(r) == le(start_date, r.time_tag) /\ le(r.time_tag, end_date)
                   /\ r.time_tag # end_date
    IN Frame(SelectSeq(df.v, Keep))

filter_dataframe(df, start_date, end_date) ==
    LET Keep(r) == le(start_date, r.time_tag) /\ le(r.time_tag, end_date)
    IN Frame(SelectSeq(df.v, Keep))

get_tick_values_and_labels(filtered) ==
    [i \in 1..Len(filtered.v) |-> filtered.v[i].time_tag]

\* px.bar(x='time_tag', y='Kp', color='color') plus the tick values.
create_figure(filtered) ==
    [tag |-> "Figure",
     v |-> [bars |-> [i \in 1..Len(filtered.v) |->
                        [x |-> filtered.v[i].time_tag, y |-> filtered.v[i].Kp,
                         color |-> filtered.v[i].color]],
            tickvals |-> get_tick_values_and_labels(filtered)]]

\* The empty chart payload {}.
EmptyDict == [tag |-> "dict", v |-> 0]

\* The body of update_graph on the table df: the returned payload, and the
\* local filtered_df (Unbound when the function returns before binding it).
update_graph(df, start_date, end_date) ==
    LET s == convert_to_datetime(start_date)
        e == convert_to_datetime(end_date)
    IN IF s = None \/ e = None
       THEN [figure |-> EmptyDict, filtered_df |-> Unbound]
       ELSE LET filtered == filter_dataframe(df, s, e)
            IN [figure |-> create_figure(filtered), filtered_df |-> filtered]

\* ------------------------------------------------------------- state
VARIABLES
    pc,              \* the module-level statement to run next
    kp_index_data,   \* line 64
    forecast_data,   \* line 65
    kp_df,           \* line 70
    kp_forecast_df,  \* line 71
    layout,          \* app.layout, line 165
    exc,             \* the exception that ended the process, if any
    start_date,      \* update_graph's arguments, during a callback
    end_date,
    filtered_df,     \* update_graph's local, during a callback
    figure,          \* update_graph's return value, during a callback
    n_get,           \* requests.get calls so far, per feed
    n_preprocess,    \* preprocess_*_dataframe calls so far, per feed
    kp_value,        \* map_color's argument (SpecColor)
    color            \* map_color's result (SpecColor)

vars == <<pc, kp_index_data, forecast_data, kp_df, kp_forecast_df, layout, exc,
          start_date, end_date, filtered_df, figure, n_get, n_preprocess,
          kp_value, color>>

\* ------------------------------------------------------------- inputs
\* The Kp reported for day t: 3.3, 5.3, 7.3, ... (green, orange, darkred).
KpSample(t) == 20 * t + 13

Seqs(S, n) == UNION {[1..k -> S] : k \in 0..n}

\* Records of the observational feed: the header, a well-formed record per
\* day, and a record whose Kp is not a number.
KpRecords ==
    {[time_tag |-> WordText, Kp |-> WordText]}
    \cup {[time_tag |-> TimeText(KP_FORMAT, t), Kp |-> DecimalText(KpSample(t))] : t \in 1..MaxTime}
    \cup {[time_tag |-> TimeText(KP_FORMAT, 1), Kp |-> WordText]}

\* The forecast feed: its header record, and data records with each status
\* the feed uses, one of them with a malformed timestamp.
ForecastHeader == [time_tag |-> WordText, kp |-> WordText, observed |-> "observed"]
ForecastRecords ==
    {[time_tag |-> TimeText(FORECAST_FORMAT, 1), kp |-> DecimalText(KpSample(1)), observed |-> s] :
        s \in {"observed", "estimated", "predicted"}}
    \cup {[time_tag |-> WordText, kp |-> DecimalText(KpSample(1)), observed |-> "estimated"]}
\* A forecast body is empty, or the header followed by data records.
ForecastBodies ==
    {<<>>} \cup {<<ForecastHeader>> \o rows : rows \in Seqs(ForecastRecords, MaxForecastRows - 1)}

\* What requests.get can come back with.
Responses(bodies) ==
    {[status |-> "ok", json |-> JsonList(b)] : b \in bodies}
    \cup {[status |-> st, json |-> None] : st \in {"ConnectionError", "HTTPError"}}

\* What the date picker can hand to the callback for one of its two dates.
PickerValues ==
    {None, EmptyText, WordText} \cup {TimeText(DATE_FORMAT, t) : t \in 1..MaxTime}

Feeds == {"kp", "forecast"}

\* ------------------------------------------------------------- startup
Init ==
    /\ pc = "fetch_kp"
    /\ kp_index_data = Unbound
    /\ forecast_data = Unbound
    /\ kp_df = Unbound
    /\ kp_forecast_df = Unbound
    /\ layout = Unbound
    /\ exc = None
    /\ start_date = Unbound
    /\ end_date = Unbound
    /\ filtered_df = Unbound
    /\ figure = Unbound
    /\ n_get = [f \in Feeds |-> 0]
    /\ n_preprocess = [f \in Feeds |-> 0]
    /\ kp_value = 0
    /\ color = "unset"

\* kp_index_data = fetch_data(kp_index_url), where a failed GET is retried once
FetchKpRetry ==
    /\ pc = "fetch_kp"
    /\ \E r1, r2 \in Responses(Seqs(KpRecords, MaxRows)) :
         IF r1.status = "ok"
         THEN /\ kp_index_data' = fetch_data(r1)
              /\ n_get' = [n_get EXCEPT !["kp"] = @ + 1]
         ELSE /\ kp_index_data' = fetch_data(r2)
              /\ n_get' = [n_get EXCEPT !["kp"] = @ + 2]
    /\ pc' = "fetch_forecast"
    /\ UNCHANGED <<forecast_data, kp_df, kp_forecast_df, layout, exc, start_date,
                   end_date, filtered_df, figure, n_preprocess, kp_value, color>>

\* kp_index_data = fetch_data(kp_index_url)
FetchKp ==
    /\ pc = "fetch_kp"
    /\ \E response \in Responses(Seqs(KpRecords, MaxRows)) :
         kp_index_data' = fetch_data(response)
    /\ n_get' = [n_get EXCEPT !["kp"] = @ + 1]
    /\ pc' = "fetch_forecast"
    /\ UNCHANGED <<forecast_data, kp_df, kp_forecast_df, layout, exc, start_date,
                   end_date, filtered_df, figure, n_preprocess, kp_value, color>>

\* forecast_data = fetch_data(forecast_url)
FetchForecast ==
    /\ pc = "fetch_forecast"
    /\ \E response \in Responses(ForecastBodies) :
         forecast_data' = fetch_data(response)
    /\ n_get' = [n_get EXCEPT !["forecast"] = @ + 1]
    /\ pc' = "preprocess_kp"
    /\ UNCHANGED <<kp_index_data, kp_df, kp_forecast_df, layout, exc, start_date,
                   end_date, filtered_df, figure, n_preprocess, kp_value, color>>

\* kp_df = preprocess_kp_dataframe(kp_index_data)
PreprocessKp ==
    /\ pc = "preprocess_kp"
    /\ LET r == preprocess_kp_dataframe(kp_index_data)
       IN IF r.exc # ""
          THEN pc' = "crashed" /\ exc' = r /\ kp_df' = kp_df
          ELSE pc' = "preprocess_forecast" /\ exc' = exc /\ kp_df' = r.ret
    /\ n_preprocess' = [n_preprocess EXCEPT !["kp"] = @ + 1]
    /\ UNCHANGED <<kp_index_data, forecast_data, kp_forecast_df, layout, start_date,
                   end_date, filtered_df, figure, n_get, kp_value, color>>

\* kp_forecast_df = preprocess_forecast_dataframe(forecast_data)
PreprocessForecast ==
    /\ pc = "preprocess_forecast"
    /\ LET r == preprocess_forecast_dataframe(forecast_data)
       IN IF r.exc # ""
          THEN pc' = "crashed" /\ exc' = r /\ kp_forecast_df' = kp_forecast_df
          ELSE pc' = "create_layout" /\ exc' = exc /\ kp_forecast_df' = r.ret
    /\ n_preprocess' = [n_preprocess EXCEPT !["forecast"] = @ + 1]
    /\ UNCHANGED <<kp_index_data, forecast_data, kp_df, layout, start_date,
                   end_date, filtered_df, figure, n_get, kp_value, color>>

\* app.layout = create_layout(kp_df, kp_forecast_df), then app.run_server
SetLayout ==
    /\ pc = "create_layout"
    /\ LET r == create_layout(kp_df, kp_forecast_df)
       IN IF r.exc # ""
          THEN pc' = "crashed" /\ exc' = r /\ layout' = layout
          ELSE pc' = "serving" /\ exc' = exc /\ layout' = r.ret
    /\ UNCHANGED <<kp_index_data, forecast_data, kp_df, kp_forecast_df, start_date,
                   end_date, filtered_df, figure, n_get, n_preprocess, kp_value, color>>

\* ------------------------------------------------------------- serving
\* The callback with `global kp_df; kp_df = filter_dataframe(kp_df, ...)`.
CallbackRebindsTable ==
    /\ pc = "serving"
    /\ \E s, e \in PickerValues :
         LET r == update_graph(kp_df, s, e)
         IN /\ start_date' = s
            /\ end_date' = e
            /\ filtered_df' = r.filtered_df
            /\ figure' = r.figure
            /\ kp_df' = IF r.filtered_df = Unbound THEN kp_df ELSE r.filtered_df
    /\ pc' = "update_graph"
    /\ UNCHANGED <<kp_index_data, forecast_data, kp_forecast_df, layout, exc,
                   n_get, n_preprocess, kp_value, color>>

\* The date picker changes and Dash calls update_graph with its two dates;
\* update_graph reads the module-level kp_df and runs to its return.
Callback ==
    /\ pc = "serving"
    /\ \E s, e \in PickerValues :
         LET r == update_graph(kp_df, s, e)
         IN /\ start_date' = s
            /\ end_date' = e
            /\ filtered_df' = r.filtered_df
            /\ figure' = r.figure
    /\ pc' = "update_graph"
    /\ UNCHANGED <<kp_index_data, forecast_data, kp_df, kp_forecast_df, layout,
                   exc, n_get, n_preprocess, kp_value, color>>

\* The returned payload goes to the browser; update_graph's arguments and
\* locals end with the call, and the server waits for the next change.
Respond ==
    /\ pc = "update_graph"
    /\ pc' = "serving"
    /\ start_date' = Unbound
    /\ end_date' = Unbound
    /\ filtered_df' = Unbound
    /\ figure' = Unbound
    /\ UNCHANGED <<kp_index_data, forecast_data, kp_df, kp_forecast_df, layout,
                   exc, n_get, n_preprocess, kp_value, color>>

Next ==
    \/ FetchKp
    \/ FetchForecast
    \/ PreprocessKp
    \/ PreprocessForecast
    \/ SetLayout
    \/ Callback
    \/ Respond

Spec == Init /\ [][Next]_vars

\* ------------------------------------------------------------- map_color alone
KpValues == (-MaxKpTenths)..MaxKpTenths

InitColor ==
    /\ pc = "map_color"
    /\ kp_index_data = Unbound
    /\ forecast_data = Unbound
    /\ kp_df = Unbound
    /\ kp_forecast_df = Unbound
    /\ layout = Unbound
    /\ exc = None
    /\ start_date = Unbound
    /\ end_date = Unbound
    /\ filtered_df = Unbound
    /\ figure = Unbound
    /\ n_get = [f \in Feeds |-> 0]
    /\ n_preprocess = [f \in Feeds |-> 0]
    /\ kp_value \in KpValues
    /\ color = "unset"

\* color = map_color(kp_value)
MapColor ==
    /\ pc = "map_color"
    /\ color' = map_color(kp_value)
    /\ pc' = "returned"
    /\ UNCHANGED <<kp_index_data, forecast_data, kp_df, kp_forecast_df, layout, exc,
                   start_date, end_date, filtered_df, figure, n_get, n_preprocess,
                   kp_value>>

NextColor == MapColor

SpecColor == InitColor /\ [][NextColor]_vars

\* ============================================================= claims
Labels == {"green", "yellow", "orange", "red", "darkred", "brown"}
Started == pc \in {"serving", "update_graph"}
IsList(data) == data.tag = "list"
Positions(rows) == [i \in 1..Len(rows) |-> i]

\* ------------------------------------------------------------- C1
\* A fetch returned None, and the other feed, if it arrived, holds a record
\* (so that nothing but the None can end the startup early).
FetchFailed ==
    /\ pc \notin {"fetch_kp", "fetch_forecast"}
    /\ \/ kp_index_data = None
       \/ forecast_data = None /\ IsList(kp_index_data) /\ Len(kp_index_data.v) > 0

\* C1: when either fetch returned None, preprocessing raises nothing, the
\* process does not abort, and once it serves, the installed layout is the
\* error Alert.
C1_FetchFailureShowsAlert ==
    FetchFailed
    => /\ pc # "crashed"
       /\ (Started => layout = Alert)

\* ------------------------------------------------------------- C2
\* The label the claim's table gives to the integer c.
Category(c) ==
    CASE c < 5 -> "green"
      [] c = 5 -> "yellow"
      [] c = 6 -> "orange"
      [] c = 7 -> "red"
      [] c = 8 \/ c = 9 -> "darkred"
      [] c > 9 -> "brown"

\* c is the ceiling of v tenths: c - 1 < v/10 <= c.
IsCeiling(c, v) == 10 * (c - 1) < v /\ v <= 10 * c

Example(v, label) == kp_value = v => color = label

\* The part of C2 that does not depend on the value 6.3.
ColorTable ==
    /\ color \in Labels
    /\ \A c \in KpValues : IsCeiling(c, kp_value) => color = Category(c)
    /\ (kp_value < 0 => color = "green")
    /\ Example(40, "green") /\ Example(49, "yellow") /\ Example(50, "yellow")
    /\ Example(70, "red") /\ Example(85, "darkred") /\ Example(100, "brown")
    /\ Example(-30, "green")

\* C2 as stated: map_color returns the label of the ceiling's bucket, and in
\* particular classify(6.3) = orange.
C2_ColorAsStated ==
    pc = "returned" => ColorTable /\ Example(63, "orange")

\* C2 amended: the same, with classify(6.3) = red (the ceiling of 6.3 is 7).
C2_ColorByCeiling ==
    pc = "returned" => ColorTable /\ Example(63, "red")

C2_Witness == pc = "returned" /\ kp_value = 63 /\ color = "red"

\* ------------------------------------------------------------- C3
KpRecordIsValid(rec) == rec.time_tag.tag = KP_FORMAT /\ rec.Kp.tag = "decimal"

\* The rows C3 describes: the records after the first that are valid, in
\* their order, each with its colour.
ExpectedKpRows(records) ==
    LET Keep(i) == i > 1 /\ KpRecordIsValid(records[i])
        kept == SelectSeq(Positions(records), Keep)
    IN [j \in 1..Len(kept) |->
          [idx |-> kept[j] - 1,
           time_tag |-> Timestamp(records[kept[j]].time_tag.v),
           Kp |-> Float(records[kept[j]].Kp.v),
           color |-> map_color(records[kept[j]].Kp.v)]]

\* C3: for every list of raw records, preprocess_kp_dataframe returns the
\* valid records after the first, in order, each with color = map_color(Kp).
C3_KpCleaningOfEveryList ==
    (IsList(kp_index_data) /\ n_preprocess["kp"] = 1)
    => kp_df = Frame(ExpectedKpRows(kp_index_data.v))

\* The same for the lists that hold at least one record; this holds.
KpCleaningOfNonEmptyList ==
    (IsList(kp_index_data) /\ Len(kp_index_data.v) > 0 /\ n_preprocess["kp"] = 1)
    => kp_df = Frame(ExpectedKpRows(kp_index_data.v))

\* ------------------------------------------------------------- C4
ForecastRecordIsValid(rec) ==
    /\ rec.time_tag.tag = FORECAST_FORMAT
    /\ rec.kp.tag = "decimal"
    /\ rec.observed \in {"estimated", "predicted"}

ExpectedForecastRows(records) ==
    LET Keep(i) == i > 1 /\ ForecastRecordIsValid(records[i])
        kept == SelectSeq(Positions(records), Keep)
    IN [j \in 1..Len(kept) |->
          [idx |-> kept[j] - 1,
           time_tag |-> Timestamp(records[kept[j]].time_tag.v),
           kp |-> Float(records[kept[j]].kp.v),
           observed |-> records[kept[j]].observed]]

\* C4: for every list of raw forecast records, preprocess_forecast_dataframe
\* returns, in order, the records after the first with a valid timestamp, a
\* numeric kp and the status "estimated" or "predicted".
C4_ForecastCleaningOfEveryList ==
    (IsList(forecast_data) /\ n_preprocess["forecast"] = 1)
    => kp_forecast_df = Frame(ExpectedForecastRows(forecast_data.v))

\* The same for the lists that hold at least one record; this holds.
ForecastCleaningOfNonEmptyList ==
    (IsList(forecast_data) /\ Len(forecast_data.v) > 0 /\ n_preprocess["forecast"] = 1)
    => kp_forecast_df = Frame(ExpectedForecastRows(forecast_data.v))

\* ------------------------------------------------------------- C5
IsDate(x) == x.tag = DATE_FORMAT
InRange(row, s, e) == s <= row.time_tag.v /\ row.time_tag.v <= e

\* C5: with two valid timestamps, the filter returns exactly the rows of the
\* table with start <= time_tag <= end, each once and in the table's order,
\* and nothing when start > end.
C5_RangeFilterInclusive ==
    (pc = "update_graph" /\ IsDate(start_date) /\ IsDate(end_date))
    => /\ filtered_df.tag = "DataFrame"
       /\ LET s == start_date.v
              e == end_date.v
              out == filtered_df.v
          IN /\ \A i \in 1..Len(out) : InRange(out[i], s, e) /\ out[i] \in Range(kp_df.v)
             /\ \A i \in 1..Len(kp_df.v) :
                   InRange(kp_df.v[i], s, e) => kp_df.v[i] \in Range(out)
             /\ Len(out) = Cardinality({i \in 1..Len(kp_df.v) : InRange(kp_df.v[i], s, e)})
             /\ \A i, j \in 1..Len(out) : i < j => out[i].idx < out[j].idx
             /\ (s > e => out = <<>>)

\* Both bounds are met by a kept row, and the table holds two rows.
C5_Witness ==
    /\ pc = "update_graph" /\ IsDate(start_date) /\ IsDate(end_date)
    /\ filtered_df.tag = "DataFrame" /\ Len(filtered_df.v) = 2
    /\ start_date.v < end_date.v
    /\ filtered_df.v[1].time_tag.v = start_date.v
    /\ filtered_df.v[2].time_tag.v = end_date.v

\* ------------------------------------------------------------- C6
\* A picker value that is missing, empty or malformed.
NoValidDate(x) == x \in {None, EmptyText, WordText}

\* C6: when the start or the end does not parse into a valid timestamp,
\* update_graph returns {} and neither filters nor builds a figure.
C6_InvalidDatesGiveEmptyPayload ==
    (pc = "update_graph" /\ (NoValidDate(start_date) \/ NoValidDate(end_date)))
    => figure = EmptyDict /\ filtered_df = Unbound

\* The same for the values convert_to_datetime turns into None (missing or
\* malformed, not empty); this holds.
UnparsedDatesGiveEmptyPayload ==
    (pc = "update_graph" /\ (start_date \in {None, WordText} \/ end_date \in {None, WordText}))
    => figure = EmptyDict /\ filtered_df = Unbound

\* ------------------------------------------------------------- C7
\* C7: once both tables are built, empty or not, the process does not end
\* with an error.
C7_NoFatalErrorOnceTablesBuilt ==
    (kp_df # Unbound /\ kp_forecast_df # Unbound) => pc # "crashed"

\* ------------------------------------------------------------- C8
\* C8: each feed is requested once and cleaned once, all of it before the
\* surface is available, and never again.
C8_FetchOnceBeforeServing ==
    /\ \A f \in Feeds : n_get[f] <= 1 /\ n_preprocess[f] <= 1
    /\ (pc # "fetch_kp" => n_get["kp"] = 1)
    /\ (pc \notin {"fetch_kp", "fetch_forecast"} => n_get["forecast"] = 1)
    /\ (Started => \A f \in Feeds : n_get[f] = 1 /\ n_preprocess[f] = 1)
    /\ (Started => kp_df.tag = "DataFrame" /\ kp_forecast_df.tag = "DataFrame")

C8_Witness ==
    /\ pc = "update_graph" /\ figure.tag = "Figure"
    /\ \A f \in Feeds : n_get[f] = 1 /\ n_preprocess[f] = 1

\* ------------------------------------------------------------- C9
\* C9: no step taken while serving changes kp_df or kp_forecast_df, and what
\* a callback returns is update_graph of the table and its own two dates.
C9_TablesNeverMutated ==
    [][Started =>
         /\ kp_df' = kp_df
         /\ kp_forecast_df' = kp_forecast_df
         /\ (pc' = "update_graph" =>
               /\ figure' = update_graph(kp_df, start_date', end_date').figure
               /\ kp_df' = preprocess_kp_dataframe(kp_index_data).ret)]_vars

\* A callback that kept some rows of the table and left others out.
C9_Witness ==
    /\ pc = "update_graph" /\ figure.tag = "Figure"
    /\ Len(filtered_df.v) > 0 /\ Len(filtered_df.v) < Len(kp_df.v)
    /\ kp_df = preprocess_kp_dataframe(kp_index_data).ret

\* ------------------------------------------------------------- C10
RowIsClean(row) ==
    /\ row.time_tag.tag = "Timestamp"
    /\ row.Kp.tag = "float"
    /\ row.color \in Labels
    /\ row.color = map_color(row.Kp.v)

\* C10: every row of the clean table and of a filter result has a timestamp,
\* a numeric Kp and the colour of that Kp, and a filtered row is a row of the
\* table, colour included.
C10_CleanRowsAnnotated ==
    /\ (kp_df.tag = "DataFrame" => \A i \in 1..Len(kp_df.v) : RowIsClean(kp_df.v[i]))
    /\ (filtered_df.tag = "DataFrame" =>
          \A i \in 1..Len(filtered_df.v) :
             RowIsClean(filtered_df.v[i]) /\ filtered_df.v[i] \in Range(kp_df.v))

\* A filter result with rows of two different colours.
C10_Witness ==
    /\ pc = "update_graph" /\ filtered_df.tag = "DataFrame"
    /\ \E i, j \in 1..Len(filtered_df.v) : filtered_df.v[i].color # filtered_df.v[j].color

====
